---- MODULE Spec2Model ----
(***************************************************************************)
(* Model of src/country_relocation_agent.py: the UserCriteria constructor  *)
(* and the three query methods of CountryRelocationAgent                   *)
(* (calculate_score, filter_countries, recommend_countries).               *)
(*                                                                         *)
(* Representation.  A Python dict is a sequence of <<key, value>> pairs    *)
(* with distinct keys, in insertion order (the order .items() iterates).   *)
(* A CountryData object is a record; hasattr(country, k) is                *)
(* k \in DOMAIN country.  Python tuples are TLA+ tuples.                    *)
(*                                                                         *)
(* Numbers.  Metric values and thresholds are Python ints.  A weight is    *)
(* held as the two-decimal literal that denotes it, in hundredths (0.15 is *)
(* 15); the float it denotes is float_of_hundredths(15), the nearest       *)
(* binary64 value.  A Python float is [sign, mag]: sign is -1, 0 or 1 and  *)
(* mag is the magnitude in units of 2^-60, as four base-2^20 limbs, most   *)
(* significant first (35.0 is [sign |-> 1, mag |-> <<35, 0, 0, 0>>]).      *)
(* Every product and sum is rounded to 53 significant bits, ties to even,  *)
(* as the hardware does.  The representation covers magnitudes below 2^20  *)
(* that are multiples of 2^-60, which holds for every weight k/100 with    *)
(* k # 0 and everything computed from such weights and integer metric      *)
(* values below 2^10.  The int 0 and the floats 0.0 and -0.0 are one       *)
(* value, as they are for Python's ==, < and >.                           *)
(* Metric names used as dict keys are numeric attributes of CountryData or *)
(* names that are no attribute at all; the string attributes (name,        *)
(* expat_community_size) are never used as keys.                           *)
(***************************************************************************)
EXTENDS Integers, Sequences, FiniteSets

VARIABLES
  countries,  \* self.countries of the agent
  criteria,   \* the UserCriteria object the caller currently holds
  op,         \* the last operation that ran
  arg,        \* its argument (weights passed, country index, or top_n)
  ret,        \* its return value
  pinned      \* an earlier recommend_countries call, kept for comparison

vars == <<countries, criteria, op, arg, ret, pinned>>

\* ---------------------------------------------------------------- bounds
NegTopN == 2      \* top_n ranges over -NegTopN .. MaxTopN
MaxTopN == 3
MaxWeights == 2   \* entries in a caller-supplied weights dict

\* ------------------------------------------------------------- utilities
Min(a, b) == IF a <= b THEN a ELSE b
Max(a, b) == IF a >= b THEN a ELSE b

dict_keys(d) == {d[i][1] : i \in DOMAIN d}
dict_has(d, k) == \E i \in DOMAIN d : d[i][1] = k
dict_get(d, k) == d[CHOOSE i \in DOMAIN d : d[i][1] = k][2]

\* All dicts with at most n entries, keys from K, values from V.
Dicts(K, V, n) ==
  {s \in UNION {[1..m -> K \X V] : m \in 0..n} :
     \A i, j \in DOMAIN s : i # j => s[i][1] # s[j][1]}

\* ------------------------------------------------- binary64 arithmetic
LimbBase == 2^20
Pow2(n) == 2^n

\* Number of significant bits of a limb, and of a magnitude.
limb_bitlen(v) ==
  IF v = 0 THEN 0 ELSE CHOOSE n \in 1..20 : Pow2(n - 1) <= v /\ v < Pow2(n)

mag_bitlen(x) ==
  IF x[1] > 0 THEN 60 + limb_bitlen(x[1])
  ELSE IF x[2] > 0 THEN 40 + limb_bitlen(x[2])
  ELSE IF x[3] > 0 THEN 20 + limb_bitlen(x[3])
  ELSE limb_bitlen(x[4])

mag_less(x, y) ==
  \/ x[1] < y[1]
  \/ x[1] = y[1] /\ x[2] < y[2]
  \/ x[1] = y[1] /\ x[2] = y[2] /\ x[3] < y[3]
  \/ x[1] = y[1] /\ x[2] = y[2] /\ x[3] = y[3] /\ x[4] < y[4]

\* Exact sum, difference (x >= y) and product by a non-negative int.
mag_add(x, y) ==
  LET s4 == x[4] + y[4]
      s3 == x[3] + y[3] + s4 \div LimbBase
      s2 == x[2] + y[2] + s3 \div LimbBase
      s1 == x[1] + y[1] + s2 \div LimbBase
  IN <<s1, s2 % LimbBase, s3 % LimbBase, s4 % LimbBase>>

mag_sub(x, y) ==
  LET d4 == x[4] - y[4]
      d3 == x[3] - y[3] + d4 \div LimbBase
      d2 == x[2] - y[2] + d3 \div LimbBase
      d1 == x[1] - y[1] + d2 \div LimbBase
  IN <<d1, d2 % LimbBase, d3 % LimbBase, d4 % LimbBase>>

mag_mul_int(x, r) ==
  LET p4 == x[4] * r
      p3 == x[3] * r + p4 \div LimbBase
      p2 == x[2] * r + p3 \div LimbBase
      p1 == x[1] * r + p2 \div LimbBase
  IN <<p1, p2 % LimbBase, p3 % LimbBase, p4 % LimbBase>>

\* Round a magnitude to 53 significant bits, to nearest, ties to even;
\* sticky says that nonzero bits below the last limb were cut off.
round53(x, sticky) ==
  LET b == mag_bitlen(x)
      shift == b - 53
  IN IF shift <= 0 THEN x
     ELSE
       LET low == IF shift <= 20 THEN x[4] % Pow2(shift)
                  ELSE x[4] + LimbBase * (x[3] % Pow2(shift - 20))
           half == Pow2(shift - 1)
           trunc == IF shift <= 20
                    THEN <<x[1], x[2], x[3], x[4] - (x[4] % Pow2(shift))>>
                    ELSE <<x[1], x[2], x[3] - (x[3] % Pow2(shift - 20)), 0>>
           odd == IF shift < 20 THEN (x[4] \div Pow2(shift)) % 2 = 1
                  ELSE (x[3] \div Pow2(shift - 20)) % 2 = 1
           ulp == IF shift < 20 THEN <<0, 0, 0, Pow2(shift)>>
                  ELSE <<0, 0, Pow2(shift - 20), 0>>
           up == \/ low > half
                 \/ low = half /\ (sticky \/ odd)
       IN IF up THEN mag_add(trunc, ulp) ELSE trunc

float_zero == [sign |-> 0, mag |-> <<0, 0, 0, 0>>]
float_of_int(n) ==
  IF n = 0 THEN float_zero
  ELSE [sign |-> IF n > 0 THEN 1 ELSE -1, mag |-> <<IF n > 0 THEN n ELSE 0 - n, 0, 0, 0>>]

\* The float a literal k/100 denotes: long division by 100, then rounding.
float_of_hundredths(k) ==
  IF k = 0 THEN float_zero
  ELSE
    LET a == IF k > 0 THEN k ELSE 0 - k
        q1 == a \div 100
        r1 == a % 100
        q2 == (r1 * LimbBase) \div 100
        r2 == (r1 * LimbBase) % 100
        q3 == (r2 * LimbBase) \div 100
        r3 == (r2 * LimbBase) % 100
        q4 == (r3 * LimbBase) \div 100
        r4 == (r3 * LimbBase) % 100
    IN [sign |-> IF k > 0 THEN 1 ELSE -1,
        mag |-> round53(<<q1, q2, q3, q4>>, r4 # 0)]

\* n * w for an int n and a float w (line 270): one rounding.
float_mul_int(n, w) ==
  IF n = 0 \/ w.sign = 0 THEN float_zero
  ELSE [sign |-> IF n > 0 THEN w.sign ELSE 0 - w.sign,
        mag |-> round53(mag_mul_int(w.mag, IF n > 0 THEN n ELSE 0 - n), FALSE)]

\* a + b (line 272): one rounding.
float_add(a, b) ==
  IF a.sign = 0 THEN b
  ELSE IF b.sign = 0 THEN a
  ELSE IF a.sign = b.sign
       THEN [sign |-> a.sign, mag |-> round53(mag_add(a.mag, b.mag), FALSE)]
  ELSE IF a.mag = b.mag THEN float_zero
  ELSE IF mag_less(b.mag, a.mag)
       THEN [sign |-> a.sign, mag |-> round53(mag_sub(a.mag, b.mag), FALSE)]
       ELSE [sign |-> b.sign, mag |-> round53(mag_sub(b.mag, a.mag), FALSE)]

\* a < b.
float_less(a, b) ==
  \/ a.sign < b.sign
  \/ a.sign = 1 /\ b.sign = 1 /\ mag_less(a.mag, b.mag)
  \/ a.sign = -1 /\ b.sign = -1 /\ mag_less(b.mag, a.mag)

\* ------------------------------------------------------------ the dataset
initialize_country_database ==
<<
    [name |-> "Portugal", cost_of_living_index |-> 45, quality_of_life_index |-> 75,
     safety_index |-> 82, healthcare_index |-> 72, climate_score |-> 85,
     job_market_score |-> 60, english_proficiency |-> 65, visa_ease |-> 75,
     tax_friendliness |-> 60, internet_speed |-> 95, expat_community_size |-> "Large"],
    [name |-> "Spain", cost_of_living_index |-> 50, quality_of_life_index |-> 78,
     safety_index |-> 80, healthcare_index |-> 78, climate_score |-> 88,
     job_market_score |-> 58, english_proficiency |-> 60, visa_ease |-> 72,
     tax_friendliness |-> 55, internet_speed |-> 110, expat_community_size |-> "Large"],
    [name |-> "Thailand", cost_of_living_index |-> 30, quality_of_life_index |-> 68,
     safety_index |-> 70, healthcare_index |-> 65, climate_score |-> 75,
     job_market_score |-> 55, english_proficiency |-> 50, visa_ease |-> 85,
     tax_friendliness |-> 70, internet_speed |-> 85, expat_community_size |-> "Large"],
    [name |-> "Germany", cost_of_living_index |-> 65, quality_of_life_index |-> 85,
     safety_index |-> 85, healthcare_index |-> 88, climate_score |-> 65,
     job_market_score |-> 82, english_proficiency |-> 70, visa_ease |-> 60,
     tax_friendliness |-> 45, internet_speed |-> 120, expat_community_size |-> "Large"],
    [name |-> "Mexico", cost_of_living_index |-> 35, quality_of_life_index |-> 65,
     safety_index |-> 55, healthcare_index |-> 60, climate_score |-> 80,
     job_market_score |-> 60, english_proficiency |-> 45, visa_ease |-> 90,
     tax_friendliness |-> 65, internet_speed |-> 70, expat_community_size |-> "Large"],
    [name |-> "Canada", cost_of_living_index |-> 70, quality_of_life_index |-> 88,
     safety_index |-> 88, healthcare_index |-> 85, climate_score |-> 60,
     job_market_score |-> 80, english_proficiency |-> 95, visa_ease |-> 55,
     tax_friendliness |-> 50, internet_speed |-> 130, expat_community_size |-> "Large"],
    [name |-> "Australia", cost_of_living_index |-> 75, quality_of_life_index |-> 90,
     safety_index |-> 87, healthcare_index |-> 87, climate_score |-> 85,
     job_market_score |-> 78, english_proficiency |-> 100, visa_ease |-> 50,
     tax_friendliness |-> 55, internet_speed |-> 110, expat_community_size |-> "Large"],
    [name |-> "Estonia", cost_of_living_index |-> 48, quality_of_life_index |-> 72,
     safety_index |-> 82, healthcare_index |-> 70, climate_score |-> 55,
     job_market_score |-> 72, english_proficiency |-> 75, visa_ease |-> 80,
     tax_friendliness |-> 75, internet_speed |-> 150, expat_community_size |-> "Medium"],
    [name |-> "New Zealand", cost_of_living_index |-> 72, quality_of_life_index |-> 87,
     safety_index |-> 90, healthcare_index |-> 82, climate_score |-> 82,
     job_market_score |-> 70, english_proficiency |-> 100, visa_ease |-> 52,
     tax_friendliness |-> 58, internet_speed |-> 105, expat_community_size |-> "Medium"],
    [name |-> "Costa Rica", cost_of_living_index |-> 40, quality_of_life_index |-> 70,
     safety_index |-> 68, healthcare_index |-> 72, climate_score |-> 88,
     job_market_score |-> 58, english_proficiency |-> 52, visa_ease |-> 88,
     tax_friendliness |-> 68, internet_speed |-> 75, expat_community_size |-> "Large"],
    [name |-> "Singapore", cost_of_living_index |-> 85, quality_of_life_index |-> 92,
     safety_index |-> 95, healthcare_index |-> 92, climate_score |-> 70,
     job_market_score |-> 88, english_proficiency |-> 85, visa_ease |-> 65,
     tax_friendliness |-> 80, internet_speed |-> 200, expat_community_size |-> "Large"],
    [name |-> "Czech Republic", cost_of_living_index |-> 42, quality_of_life_index |-> 74,
     safety_index |-> 80, healthcare_index |-> 75, climate_score |-> 68,
     job_market_score |-> 70, english_proficiency |-> 65, visa_ease |-> 70,
     tax_friendliness |-> 65, internet_speed |-> 115, expat_community_size |-> "Medium"]
  >>

\* ------------------------------------------------------------ UserCriteria
DefaultWeights ==
  << <<"cost_of_living_index", 15>>, <<"quality_of_life_index", 20>>,
     <<"safety_index", 15>>, <<"healthcare_index", 10>>,
     <<"climate_score", 10>>, <<"job_market_score", 10>>,
     <<"english_proficiency", 5>>, <<"visa_ease", 10>>,
     <<"tax_friendliness", 5>> >>

\* Mutant of UserCriteria: the defaults replace whatever the caller passed.
UserCriteria_always_default(weights, min_requirements, preferred_regions, deal_breakers) ==
  [weights |-> DefaultWeights,
   min_requirements |-> min_requirements,
   preferred_regions |-> preferred_regions,
   deal_breakers |-> deal_breakers]

\* The dataclass constructor followed by __post_init__.
UserCriteria(weights, min_requirements, preferred_regions, deal_breakers) ==
  [weights |-> IF weights = <<>> THEN DefaultWeights ELSE weights,
   min_requirements |-> min_requirements,
   preferred_regions |-> preferred_regions,
   deal_breakers |-> deal_breakers]

\* --------------------------------------------------------- calculate_score
\* Mutant of score_loop: cost_of_living_index is not inverted.
RECURSIVE score_loop_no_invert(_, _, _, _, _)
score_loop_no_invert(country, crit, i, scores, total_score) ==
  IF i > Len(crit.weights) THEN <<total_score, scores>>
  ELSE
    LET criterion == crit.weights[i][1]
        weight == float_of_hundredths(crit.weights[i][2])
    IN IF criterion \in DOMAIN country
       THEN LET raw_value == country[criterion]
                weighted_score == float_mul_int(raw_value, weight)
            IN IF dict_has(crit.min_requirements, criterion)
                  /\ raw_value < dict_get(crit.min_requirements, criterion)
               THEN <<float_zero, <<>>>>
               ELSE score_loop_no_invert(country, crit, i + 1,
                                         Append(scores, <<criterion, weighted_score>>),
                                         float_add(total_score, weighted_score))
       ELSE score_loop_no_invert(country, crit, i + 1, scores, total_score)

\* Mutant of score_loop: the gate also rejects a value equal to the threshold.
RECURSIVE score_loop_gate_le(_, _, _, _, _)
score_loop_gate_le(country, crit, i, scores, total_score) ==
  IF i > Len(crit.weights) THEN <<total_score, scores>>
  ELSE
    LET criterion == crit.weights[i][1]
        weight == float_of_hundredths(crit.weights[i][2])
    IN IF criterion \in DOMAIN country
       THEN LET raw_value == country[criterion]
                normalized_value == IF criterion = "cost_of_living_index"
                                    THEN 100 - raw_value ELSE raw_value
                weighted_score == float_mul_int(normalized_value, weight)
            IN IF dict_has(crit.min_requirements, criterion)
                  /\ raw_value <= dict_get(crit.min_requirements, criterion)
               THEN <<float_zero, <<>>>>
               ELSE score_loop_gate_le(country, crit, i + 1,
                                       Append(scores, <<criterion, weighted_score>>),
                                       float_add(total_score, weighted_score))
       ELSE score_loop_gate_le(country, crit, i + 1, scores, total_score)

\* The for loop over criteria.weights.items(), from its i-th entry on, with
\* the accumulators scores and total_score.
RECURSIVE score_loop(_, _, _, _, _)
score_loop(country, crit, i, scores, total_score) ==
  IF i > Len(crit.weights) THEN <<total_score, scores>>
  ELSE
    LET criterion == crit.weights[i][1]
        weight == float_of_hundredths(crit.weights[i][2])
    IN IF criterion \in DOMAIN country
       THEN LET raw_value == country[criterion]
                normalized_value == IF criterion = "cost_of_living_index"
                                    THEN 100 - raw_value ELSE raw_value
                weighted_score == float_mul_int(normalized_value, weight)
            IN IF dict_has(crit.min_requirements, criterion)
                  /\ raw_value < dict_get(crit.min_requirements, criterion)
               THEN <<float_zero, <<>>>>
               ELSE score_loop(country, crit, i + 1,
                               Append(scores, <<criterion, weighted_score>>),
                               float_add(total_score, weighted_score))
       ELSE score_loop(country, crit, i + 1, scores, total_score)

calculate_score(country, crit) == score_loop(country, crit, 1, <<>>, float_zero)

\* -------------------------------------------------------- filter_countries
\* Mutant of meets_requirements: a value equal to the threshold fails.
RECURSIVE meets_requirements_le(_, _, _)
meets_requirements_le(country, reqs, j) ==
  IF j > Len(reqs) THEN TRUE
  ELSE IF reqs[j][1] \in DOMAIN country /\ country[reqs[j][1]] <= reqs[j][2]
       THEN FALSE
       ELSE meets_requirements_le(country, reqs, j + 1)

\* The inner loop over criteria.min_requirements.items(), from its j-th
\* entry on: FALSE at the first failed threshold (the break).
RECURSIVE meets_requirements(_, _, _)
meets_requirements(country, reqs, j) ==
  IF j > Len(reqs) THEN TRUE
  ELSE IF reqs[j][1] \in DOMAIN country /\ country[reqs[j][1]] < reqs[j][2]
       THEN FALSE
       ELSE meets_requirements(country, reqs, j + 1)

RECURSIVE filter_loop(_, _, _, _)
filter_loop(cs, crit, i, filtered) ==
  IF i > Len(cs) THEN filtered
  ELSE filter_loop(cs, crit, i + 1,
                   IF meets_requirements(cs[i], crit.min_requirements, 1)
                   THEN Append(filtered, cs[i]) ELSE filtered)

\* Mutant of filter_countries: nothing is filtered out.
filter_countries_none(cs, crit) == cs

filter_countries(cs, crit) == filter_loop(cs, crit, 1, <<>>)

\* ----------------------------------------------------- recommend_countries
\* The scoring loop over eligible_countries, from its i-th entry on.
RECURSIVE scoring_loop(_, _, _, _)
scoring_loop(eligible, crit, i, scored) ==
  IF i > Len(eligible) THEN scored
  ELSE LET r == calculate_score(eligible[i], crit)
       IN scoring_loop(eligible, crit, i + 1,
                       IF float_less(float_zero, r[1])
                       THEN Append(scored, <<eligible[i], r[1], r[2]>>)
                       ELSE scored)

\* Mutant of list_sort_reverse: ascending sort, then reversed, which puts
\* entries with equal scores in reverse order.
RECURSIVE list_sort_unstable(_)
list_sort_unstable(s) ==
  IF s = <<>> THEN <<>>
  ELSE LET t == list_sort_unstable(SubSeq(s, 1, Len(s) - 1))
           x == s[Len(s)]
           k == Cardinality({i \in DOMAIN t : float_less(x[2], t[i][2])})
       IN SubSeq(t, 1, k) \o <<x>> \o SubSeq(t, k + 1, Len(t))

\* list.sort(key=lambda x: x[1], reverse=True): descending by the second
\* component, stable (equal keys keep their order).  Insertion sort: the
\* last element goes after every element whose key is >= its own.
RECURSIVE list_sort_reverse(_)
list_sort_reverse(s) ==
  IF s = <<>> THEN <<>>
  ELSE LET t == list_sort_reverse(SubSeq(s, 1, Len(s) - 1))
           x == s[Len(s)]
           k == Cardinality({i \in DOMAIN t : ~float_less(t[i][2], x[2])})
       IN SubSeq(t, 1, k) \o <<x>> \o SubSeq(t, k + 1, Len(t))

\* Mutant of py_slice: one entry too many.
py_slice_off_by_one(s, n) ==
  IF n >= 0 THEN SubSeq(s, 1, Min(n + 1, Len(s)))
  ELSE SubSeq(s, 1, Max(Len(s) + n, 0))

\* s[:n] on a Python list: a negative n counts from the end.
py_slice(s, n) ==
  IF n >= 0 THEN SubSeq(s, 1, Min(n, Len(s)))
  ELSE SubSeq(s, 1, Max(Len(s) + n, 0))

\* scored_countries after the sort, before the slice.
ranking(cs, crit) ==
  list_sort_reverse(scoring_loop(filter_countries(cs, crit), crit, 1, <<>>))

recommend_countries(cs, crit, top_n) == py_slice(ranking(cs, crit), top_n)

\* Mutant of countries_after_recommend: self.countries itself is sorted by
\* score instead of the local list.
countries_sorted_in_place(cs, crit) ==
  LET scored == [i \in DOMAIN cs |-> <<cs[i], calculate_score(cs[i], crit)[1]>>]
      sorted == list_sort_reverse(scored)
  IN [i \in DOMAIN cs |-> sorted[i][1]]

\* self.countries once recommend_countries has returned: the method builds
\* and sorts local lists only.
countries_after_recommend(cs, crit) == cs

\* ------------------------------------------------------------------ inputs
WeightKeys == {"cost_of_living_index", "english_proficiency", "nightlife_score"}
WeightVals == {-50, 50}

\* min_requirements of the "Digital Nomad" scenario of main().
NomadRequirements == << <<"internet_speed", 80>>, <<"safety_index", 60>> >>

\* Weights under which binary rounding decides: Spain's total is 2^-48
\* instead of 0 under the first, New Zealand's total is one ulp above
\* Australia's instead of equal under the second.
RoundingWeights ==
  { << <<"cost_of_living_index", 55>>, <<"tax_friendliness", -50>> >>,
    << <<"cost_of_living_index", 10>>, <<"quality_of_life_index", 10>> >> }

WeightInputs == Dicts(WeightKeys, WeightVals, MaxWeights) \cup RoundingWeights
ReqInputs ==
  { <<>>,
    << <<"cost_of_living_index", 85>> >>,
    << <<"cost_of_living_index", 201>> >>,
    << <<"nightlife_score", 201>> >>,
    NomadRequirements }
TopNs == (0 - NegTopN) .. MaxTopN

\* Inputs of the specification that replays queries.
ReplayWeights == {<< <<"english_proficiency", 50>> >>,
                  << <<"cost_of_living_index", 10>>, <<"quality_of_life_index", 10>> >>}
ReplayReqs == {<<>>, << <<"cost_of_living_index", 85>> >>}
ReplayExtras == {<< <<"Europe">>, <<"cold winters">> >>}

NoPin == [set |-> FALSE, criteria |-> UserCriteria(<<>>, <<>>, <<>>, <<>>),
          top_n |-> 0, out |-> <<>>, other |-> FALSE]

\* ----------------------------------------------------------------- actions
Init ==
  /\ countries = initialize_country_database
  /\ criteria = UserCriteria(<<>>, <<>>, <<>>, <<>>)
  /\ op = "init"
  /\ arg = 0
  /\ ret = <<>>
  /\ pinned = NoPin

\* criteria = UserCriteria(weights=w, min_requirements=m, ...)
NewCriteria(w, m, r, d) ==
  /\ criteria' = UserCriteria(w, m, r, d)
  /\ op' = "UserCriteria"
  /\ arg' = w
  /\ ret' = <<>>
  /\ UNCHANGED <<countries, pinned>>

\* agent.calculate_score(agent.countries[i], criteria)
CalculateScore(i) ==
  /\ ret' = calculate_score(countries[i], criteria)
  /\ op' = "calculate_score"
  /\ arg' = i
  /\ UNCHANGED <<countries, criteria, pinned>>

\* agent.filter_countries(criteria)
FilterCountries ==
  /\ ret' = filter_countries(countries, criteria)
  /\ op' = "filter_countries"
  /\ arg' = 0
  /\ UNCHANGED <<countries, criteria, pinned>>

\* agent.recommend_countries(criteria, top_n); with pin the caller keeps the
\* call and its output to compare a later identical call against, and
\* pinned.other records that a different query ran since.
RecommendCountries(top_n, pin) ==
  /\ ret' = recommend_countries(countries, criteria, top_n)
  /\ countries' = countries_after_recommend(countries, criteria)
  /\ op' = "recommend_countries"
  /\ arg' = top_n
  /\ pinned' = IF pin
               THEN [set |-> TRUE, criteria |-> criteria, top_n |-> top_n,
                     out |-> ret', other |-> FALSE]
               ELSE IF pinned.set /\ (pinned.criteria # criteria \/ pinned.top_n # top_n)
                    THEN [pinned EXCEPT !.other = TRUE]
                    ELSE pinned
  /\ UNCHANGED criteria

Next ==
  \/ \E w \in WeightInputs, m \in ReqInputs : NewCriteria(w, m, <<>>, <<>>)
  \/ \E i \in 1..Len(countries) : CalculateScore(i)
  \/ FilterCountries
  \/ \E n \in TopNs : RecommendCountries(n, FALSE)

Spec == Init /\ [][Next]_vars

\* Queries replayed: a recommend_countries call may be pinned, and later
\* calls are compared with it.
NextReplay ==
  \/ \E w \in ReplayWeights, m \in ReplayReqs, x \in ReplayExtras :
        NewCriteria(w, m, x[1], x[2])
  \/ \E i \in 1..Len(countries) : CalculateScore(i)
  \/ FilterCountries
  \/ \E n \in TopNs, pin \in BOOLEAN : RecommendCountries(n, pin)

SpecReplay == Init /\ [][NextReplay]_vars

\* ------------------------------------------------- vocabulary of the claims
Entities == {countries[i] : i \in DOMAIN countries}
IndexOf(E) == CHOOSE i \in DOMAIN countries : countries[i] = E

\* The Filter's predicate: every threshold on a metric E has is met.
Passes(E, reqs) ==
  \A j \in DOMAIN reqs : reqs[j][1] \in DOMAIN E => E[reqs[j][1]] >= reqs[j][2]

\* Some threshold on a metric E has is strictly above E's raw value.
BelowSomeThreshold(E, reqs) ==
  \E j \in DOMAIN reqs : reqs[j][1] \in DOMAIN E /\ reqs[j][2] > E[reqs[j][1]]

\* Some metric that is weighted, thresholded and present on E is below its
\* threshold.
WeightedGate(E, crit) ==
  \E k \in dict_keys(crit.weights) \cap dict_keys(crit.min_requirements) :
     k \in DOMAIN E /\ E[k] < dict_get(crit.min_requirements, k)

WeightedPresent(E, crit) == {k \in dict_keys(crit.weights) : k \in DOMAIN E}

\* sum(d.values()) for a dict of floats: left to right, from 0.
RECURSIVE FloatSum(_)
FloatSum(d) ==
  IF d = <<>> THEN float_zero
  ELSE float_add(FloatSum(SubSeq(d, 1, Len(d) - 1)), d[Len(d)][2])

\* The weights dict with each literal replaced by the float it denotes.
FloatWeights(w) == [i \in DOMAIN w |-> <<w[i][1], float_of_hundredths(w[i][2])>>]

\* n/4 as a float (exact).
Quarters(n) == [sign |-> 1, mag |-> <<n \div 4, (n % 4) * (LimbBase \div 4), 0, 0>>]

ResultEntities == {ret[i][1] : i \in DOMAIN ret}

\* Entities that pass the Filter and that line 306 (score > 0) keeps.
Qualifying ==
  {E \in Entities : Passes(E, criteria.min_requirements)
                    /\ float_less(float_zero, calculate_score(E, criteria)[1])}

\* Entities that pass the Filter and whose total is not exactly 0.
NonZero ==
  {E \in Entities : Passes(E, criteria.min_requirements)
                    /\ calculate_score(E, criteria)[1] # float_zero}

\* ------------------------------------------------------------------ claims
\* C1: an entity with a threshold strictly above its raw value on a metric it
\* has never appears in the output of recommend_countries, and when some
\* threshold exceeds every entity's value the output is the empty list.
C1_ThresholdExcludes ==
  op = "recommend_countries" =>
    /\ \A E \in Entities :
         BelowSomeThreshold(E, criteria.min_requirements) => E \notin ResultEntities
    /\ (\E j \in DOMAIN criteria.min_requirements :
          \A E \in Entities :
            /\ criteria.min_requirements[j][1] \in DOMAIN E
            /\ criteria.min_requirements[j][2] > E[criteria.min_requirements[j][1]])
       => Len(ret) = 0

C1_Witness ==
  /\ op = "recommend_countries"
  /\ Len(ret) >= 2
  /\ \E E \in Entities : BelowSomeThreshold(E, criteria.min_requirements)

\* C2: recommend_countries with top_n <= 0 returns an empty result.
C2_NonPositiveTopNEmpty ==
  (op = "recommend_countries" /\ arg <= 0) => Len(ret) = 0

\* C3: for top_n >= 1 the output is exactly the first min(top_n, q) entries
\* of the full descending ranking, q being the number of entities the filter
\* and the discard keep; never more than top_n entries, fewer only when
\* q < top_n.
C3_TopNPrefix ==
  (op = "recommend_countries" /\ arg >= 1) =>
    LET q == Cardinality(Qualifying)
        full == ranking(countries, criteria)
    IN /\ Len(full) = q
       /\ ret = SubSeq(full, 1, Min(arg, q))
       /\ Len(ret) <= arg
       /\ Len(ret) < arg => q < arg

C3_Witness ==
  /\ op = "recommend_countries"
  /\ arg >= 1
  /\ Cardinality(Qualifying) > arg
  /\ Len(ret) = arg

\* C4: the output is in descending order of total score, and entries with
\* equal scores are in the order of their entities in the collection.
C4_DescendingStable ==
  op = "recommend_countries" =>
    \A i, j \in DOMAIN ret :
      i < j => /\ ~float_less(ret[i][2], ret[j][2])
               /\ ret[i][2] = ret[j][2] => IndexOf(ret[i][1]) < IndexOf(ret[j][1])

C4_Witness ==
  /\ op = "recommend_countries"
  /\ \E i, j \in DOMAIN ret : i < j /\ ret[i][2] = ret[j][2]
  /\ \E i, j \in DOMAIN ret : i < j /\ float_less(ret[j][2], ret[i][2])

\* C5: when no threshold gate triggers, the breakdown of calculate_score has
\* exactly the weighted metrics the entity has as keys, the entry of
\* cost_of_living_index is (100 - raw) * weight and every other entry is
\* raw * weight, and the total is the sum of the entries; cost 30 at weight
\* 0.5 contributes 35, and Portugal under the default weights gets 15.0 for
\* quality_of_life_index and 8.25 for cost_of_living_index.
C5_Breakdown ==
  op = "calculate_score" =>
    LET E == countries[arg]
        w == criteria.weights
    IN ~WeightedGate(E, criteria) =>
         /\ dict_keys(ret[2]) = WeightedPresent(E, criteria)
         /\ Len(ret[2]) = Cardinality(WeightedPresent(E, criteria))
         /\ \A k \in WeightedPresent(E, criteria) :
              dict_get(ret[2], k) =
                float_mul_int(IF k = "cost_of_living_index" THEN 100 - E[k] ELSE E[k],
                              float_of_hundredths(dict_get(w, k)))
         /\ ret[1] = FloatSum(ret[2])
         /\ (/\ E.cost_of_living_index = 30
             /\ dict_has(w, "cost_of_living_index")
             /\ dict_get(w, "cost_of_living_index") = 50)
            => dict_get(ret[2], "cost_of_living_index") = float_of_int(35)
         /\ (E.name = "Portugal" /\ w = DefaultWeights)
            => /\ dict_get(ret[2], "quality_of_life_index") = float_of_int(15)
               /\ dict_get(ret[2], "cost_of_living_index") = Quarters(33)

C5_Witness ==
  /\ op = "calculate_score"
  /\ ~WeightedGate(countries[arg], criteria)
  /\ countries[arg].cost_of_living_index = 30
  /\ dict_has(criteria.weights, "nightlife_score")
  /\ dict_has(criteria.weights, "cost_of_living_index")
  /\ dict_get(criteria.weights, "cost_of_living_index") = 50
  /\ ret[1] = float_of_int(35)

\* C6: filter_countries returns, in collection order and without duplicates,
\* exactly the entities that meet every threshold on a metric they have; a
\* value equal to the threshold is kept, a threshold on a metric the entity
\* lacks never disqualifies.
C6_FilterExact ==
  op = "filter_countries" =>
    /\ ret = SelectSeq(countries, LAMBDA E : Passes(E, criteria.min_requirements))
    /\ \A i, j \in DOMAIN ret : i < j => IndexOf(ret[i]) < IndexOf(ret[j])

C6_Witness ==
  /\ op = "filter_countries"
  /\ Len(ret) < Len(countries)
  /\ \E i \in DOMAIN ret, j \in DOMAIN criteria.min_requirements :
       /\ criteria.min_requirements[j][1] \in DOMAIN ret[i]
       /\ ret[i][criteria.min_requirements[j][1]] = criteria.min_requirements[j][2]

\* C7: a UserCriteria built with empty weights has the default weights over
\* the nine standard metrics, which sum to 1.0; one built with non-empty
\* weights keeps the caller's weights.
C7_DefaultWeights ==
  op = "UserCriteria" =>
    /\ arg = <<>> =>
         /\ {criteria.weights[i] : i \in DOMAIN criteria.weights} =
              { <<"cost_of_living_index", 15>>, <<"quality_of_life_index", 20>>,
                <<"safety_index", 15>>, <<"healthcare_index", 10>>,
                <<"climate_score", 10>>, <<"job_market_score", 10>>,
                <<"english_proficiency", 5>>, <<"visa_ease", 10>>,
                <<"tax_friendliness", 5>> }
         /\ Len(criteria.weights) = 9
         /\ FloatSum(FloatWeights(criteria.weights)) = float_of_int(1)
    /\ arg # <<>> => criteria.weights = arg

C7_Witness ==
  /\ op = "UserCriteria"
  /\ arg = <<>>
  /\ Len(criteria.weights) = 9

\* C8: calculate_score, filter_countries and recommend_countries leave the
\* collection and the criteria unchanged, and a recommend_countries call
\* with the criteria and top_n of an earlier call returns the same output,
\* whatever ran in between.
C8_FrameAndReplay ==
  [][ /\ op' \in {"calculate_score", "filter_countries", "recommend_countries"}
         => (countries' = countries /\ criteria' = criteria)
      /\ (/\ op' = "recommend_countries"
          /\ pinned.set
          /\ pinned.criteria = criteria'
          /\ pinned.top_n = arg')
         => ret' = pinned.out ]_vars

C8_Witness ==
  /\ op = "recommend_countries"
  /\ pinned.set
  /\ pinned.other
  /\ pinned.criteria = criteria
  /\ pinned.top_n = arg
  /\ Len(ret) >= 2
  /\ ret = pinned.out

\* C9: an entity that survives filtering is discarded if and only if its
\* total is exactly 0, so every surviving entity with a nonzero total, a
\* negative one included, is in the ranking that top_n truncates.
C9_DiscardExactlyZero ==
  (op = "recommend_countries" /\ arg >= 1) =>
    /\ ResultEntities \subseteq NonZero
    /\ Len(ret) = Min(arg, Cardinality(NonZero))

\* C10 as stated: calculate_score returns (0, {}) if and only if the entity
\* fails the Filter's predicate.
C10_GateIffFilter ==
  op = "calculate_score" =>
    (ret = <<float_zero, <<>>>> <=> ~Passes(countries[arg], criteria.min_requirements))

\* C10 amended: calculate_score returns (0, {}) exactly when a metric that
\* is weighted, thresholded and present on the entity is below its
\* threshold, or no weighted metric is present on the entity at all; so an
\* entity the Filter lets through is never gated and gets an entry for
\* every weighted metric it has.
C10_GateOnWeightedMetrics ==
  op = "calculate_score" =>
    LET E == countries[arg]
    IN /\ ret = <<float_zero, <<>>>> <=>
            (WeightedGate(E, criteria) \/ WeightedPresent(E, criteria) = {})
       /\ Passes(E, criteria.min_requirements)
            => dict_keys(ret[2]) = WeightedPresent(E, criteria)

C10_Witness ==
  /\ op = "calculate_score"
  /\ WeightedGate(countries[arg], criteria)
  /\ Len(criteria.weights) >= 2
  /\ criteria.weights[1][1] \in DOMAIN countries[arg]
  /\ ~dict_has(criteria.min_requirements, criteria.weights[1][1])
  /\ ret = <<float_zero, <<>>>>

====
